---- MODULE Spec2Model ----
(***************************************************************************)
(* The move engine of src/ai-rust/src/lib.rs: blocked edges, pawn moves,   *)
(* the two breadth-first searches, wall legality, move generation, the     *)
(* evaluation and the alpha-beta search, and get_best_move on top of them. *)
(*                                                                         *)
(* A Position is [row, col]; a Wall is [row, col, orientation]; a          *)
(* GameState is [positions, walls, walls_remaining] with walls a sequence  *)
(* (the Vec) and the two other fields indexed by "north" / "south".        *)
(* f32 scores are fixed-point integers in units of 1/1024: every term of   *)
(* evaluate but the two powf terms is a multiple of 0.5 and is exact, the  *)
(* powf terms are tabulated to the nearest 1/1024.                         *)
(***************************************************************************)
EXTENDS Integers, Sequences, FiniteSets, TLC

BOARD_SIZE == 9
GOAL_SOUTH == 0
GOAL_NORTH == BOARD_SIZE - 1

\* f32::INFINITY and f32::NEG_INFINITY: beyond every score evaluate can return
F32_INFINITY == 2000000000
F32_NEG_INFINITY == -2000000000

Fx(n) == n * 1024
Abs(n) == IF n < 0 THEN -n ELSE n
Max2(a, b) == IF a > b THEN a ELSE b
Min2(a, b) == IF a < b THEN a ELSE b
Range(s) == {s[i] : i \in DOMAIN s}

Pos(r, c) == [row |-> r, col |-> c]
MkWall(r, c, o) == [row |-> r, col |-> c, orientation |-> o]
Players == {"north", "south"}

opponent(player) == IF player = "north" THEN "south" ELSE "north"
for_player(state, player) == state.positions[player]
goal_row(player) == IF player = "north" THEN GOAL_NORTH ELSE GOAL_SOUTH
walls_left(state, player) == state.walls_remaining[player]

update_position(state, player, pos) ==
    [state EXCEPT !.positions[player] = pos]

decrement_wall(state, player) ==
    IF state.walls_remaining[player] > 0
    THEN [state EXCEPT !.walls_remaining[player] = @ - 1]
    ELSE state

(***************************************************************************)
(* Blocked edges                                                           *)
(***************************************************************************)
\* (row * 9 + col) as u8
encode(pos) == (pos.row * BOARD_SIZE + pos.col) % 256

\* (min << 8) | max of the two cell indices
edge_key(a, b) ==
    LET a_idx == encode(a)
        b_idx == encode(b)
    IN  IF a_idx < b_idx THEN a_idx * 256 + b_idx ELSE b_idx * 256 + a_idx

wall_edge_keys(wall) ==
    LET top_left == Pos(wall.row, wall.col)
        top_right == Pos(wall.row, wall.col + 1)
        bottom_left == Pos(wall.row + 1, wall.col)
        bottom_right == Pos(wall.row + 1, wall.col + 1)
    IN  IF wall.orientation = "horizontal"
        THEN <<edge_key(top_left, bottom_left), edge_key(top_right, bottom_right)>>
        ELSE <<edge_key(top_left, top_right), edge_key(bottom_left, bottom_right)>>

build_blocked_edges(walls) ==
    UNION {Range(wall_edge_keys(walls[i])) : i \in DOMAIN walls}

is_edge_blocked(a, b, blocked) == edge_key(a, b) \in blocked

OnBoard(p) ==
    p.row >= 0 /\ p.row < BOARD_SIZE /\ p.col >= 0 /\ p.col < BOARD_SIZE

\* the order of the four directions in get_adjacent_positions and get_valid_pawn_moves
Deltas == <<<<-1, 0>>, <<1, 0>>, <<0, -1>>, <<0, 1>>>>

get_adjacent_positions(pos) ==
    LET next(i) == Pos(pos.row + Deltas[i][1], pos.col + Deltas[i][2])
    IN  SelectSeq([i \in 1..4 |-> next(i)], OnBoard)

(***************************************************************************)
(* Pawn moves                                                              *)
(***************************************************************************)
perpendiculars(delta) ==
    IF delta[2] = 0 THEN <<<<0, -1>>, <<0, 1>>>> ELSE <<<<-1, 0>>, <<1, 0>>>>

\* pawn_pushes without the diagonal branch: a blocked straight jump yields nothing
pawn_pushes_no_diagonal(current, opponent_pos, blocked, delta) ==
    LET adjacent == Pos(current.row + delta[1], current.col + delta[2])
        jump == Pos(adjacent.row + delta[1], adjacent.col + delta[2])
    IN  IF ~OnBoard(adjacent) \/ is_edge_blocked(current, adjacent, blocked)
        THEN <<>>
        ELSE IF adjacent.row = opponent_pos.row /\ adjacent.col = opponent_pos.col
        THEN (IF OnBoard(jump) /\ ~is_edge_blocked(adjacent, jump, blocked)
              THEN <<jump>> ELSE <<>>)
        ELSE <<adjacent>>

\* pawn_pushes without the bounds test on the jump target
pawn_pushes_jump_unchecked(current, opponent_pos, blocked, delta) ==
    LET adjacent == Pos(current.row + delta[1], current.col + delta[2])
        jump == Pos(adjacent.row + delta[1], adjacent.col + delta[2])
    IN  IF ~OnBoard(adjacent) \/ is_edge_blocked(current, adjacent, blocked)
        THEN <<>>
        ELSE IF adjacent.row = opponent_pos.row /\ adjacent.col = opponent_pos.col
        THEN (IF ~is_edge_blocked(adjacent, jump, blocked) THEN <<jump>> ELSE <<>>)
        ELSE <<adjacent>>

\* one pass of the loop over delta: the positions this direction pushes
pawn_pushes(current, opponent_pos, blocked, delta) ==
    LET adjacent == Pos(current.row + delta[1], current.col + delta[2])
    IN  IF ~OnBoard(adjacent) \/ is_edge_blocked(current, adjacent, blocked)
        THEN <<>>
        ELSE IF adjacent.row = opponent_pos.row /\ adjacent.col = opponent_pos.col
        THEN LET jump == Pos(adjacent.row + delta[1], adjacent.col + delta[2])
             IN  IF OnBoard(jump) /\ ~is_edge_blocked(adjacent, jump, blocked)
                 THEN <<jump>>
                 ELSE LET diagonal(k) ==
                              Pos(adjacent.row + perpendiculars(delta)[k][1],
                                  adjacent.col + perpendiculars(delta)[k][2])
                          legal(d) == /\ OnBoard(d)
                                      /\ ~is_edge_blocked(adjacent, d, blocked)
                                      /\ ~is_edge_blocked(current, adjacent, blocked)
                      IN  SelectSeq(<<diagonal(1), diagonal(2)>>, legal)
        ELSE <<adjacent>>

\* all_pushes with the delta (-1, 0) left out of the loop
all_pushes_without_up(current, opponent_pos, blocked) ==
    pawn_pushes(current, opponent_pos, blocked, Deltas[2])
      \o pawn_pushes(current, opponent_pos, blocked, Deltas[3])
      \o pawn_pushes(current, opponent_pos, blocked, Deltas[4])

\* the Vec moves before it is sorted
all_pushes(current, opponent_pos, blocked) ==
    pawn_pushes(current, opponent_pos, blocked, Deltas[1])
      \o pawn_pushes(current, opponent_pos, blocked, Deltas[2])
      \o pawn_pushes(current, opponent_pos, blocked, Deltas[3])
      \o pawn_pushes(current, opponent_pos, blocked, Deltas[4])

\* the key (p.row, p.col) of sort_by_key, compared lexicographically
KeyLess(a, b) == a.row < b.row \/ (a.row = b.row /\ a.col < b.col)

RECURSIVE insert_by_key(_, _)
insert_by_key(s, p) ==
    IF s = <<>> THEN <<p>>
    ELSE IF KeyLess(p, s[Len(s)])
         THEN Append(insert_by_key(SubSeq(s, 1, Len(s) - 1), p), s[Len(s)])
         ELSE Append(s, p)

\* moves.sort_by_key(|p| (p.row, p.col)): a stable sort
RECURSIVE sort_by_key(_)
sort_by_key(s) ==
    IF s = <<>> THEN <<>>
    ELSE insert_by_key(sort_by_key(SubSeq(s, 1, Len(s) - 1)), s[Len(s)])

\* moves.dedup_by(same row and col): drops an element equal to the one kept before it
RECURSIVE dedup_by(_)
dedup_by(s) ==
    IF Len(s) <= 1 THEN s
    ELSE LET init == dedup_by(SubSeq(s, 1, Len(s) - 1))
             x == s[Len(s)]
             y == init[Len(init)]
         IN  IF x.row = y.row /\ x.col = y.col THEN init ELSE Append(init, x)

get_valid_pawn_moves(current, opponent_pos, blocked) ==
    dedup_by(sort_by_key(all_pushes(current, opponent_pos, blocked)))

(***************************************************************************)
(* The two breadth-first searches.  The queue is FIFO, so cells leave it   *)
(* in order of distance: the searches are run level by level here, the     *)
(* frontier being the cells at the current distance.                       *)
(***************************************************************************)
RECURSIVE bfs_visit(_, _, _, _)
bfs_visit(frontier, visited, goal, blocked) ==
    IF frontier = {} THEN FALSE
    ELSE IF \E node \in frontier : node.row = goal THEN TRUE
    ELSE LET next == UNION {{n \in Range(get_adjacent_positions(node)) :
                                ~is_edge_blocked(node, n, blocked)} : node \in frontier}
                      \ visited
         IN  bfs_visit(next, visited \cup next, goal, blocked)

bfs_has_path(start, goal, blocked) ==
    bfs_visit({start}, {start}, goal, blocked)

\* the neighbours are the positions get_valid_pawn_moves returns; their order and
\* multiplicity do not reach the visited set, so the pushes are taken unsorted
RECURSIVE bfs_dist(_, _, _, _, _, _)
bfs_dist(frontier, visited, dist, goal, blocked, opponent_pos) ==
    IF frontier = {} THEN 99
    ELSE IF \E node \in frontier : node.row = goal THEN dist
    ELSE LET next == UNION {Range(all_pushes(node, opponent_pos, blocked)) :
                                node \in frontier}
                      \ visited
         IN  bfs_dist(next, visited \cup next, dist + 1, goal, blocked, opponent_pos)

shortest_path(start, goal, blocked, opponent_pos) ==
    bfs_dist({start}, {start}, 0, goal, blocked, opponent_pos)

(***************************************************************************)
(* Wall legality                                                           *)
(***************************************************************************)
\* can_place_wall without the test of the candidate's edges against the blocked edges
can_place_wall_no_edge_test(candidate, walls, positions) ==
    /\ ~(\/ candidate.row < 0
         \/ candidate.col < 0
         \/ candidate.row >= BOARD_SIZE - 1
         \/ candidate.col >= BOARD_SIZE - 1)
    /\ \A i \in DOMAIN walls :
          ~(/\ walls[i].row = candidate.row
            /\ walls[i].col = candidate.col
            /\ walls[i].orientation # candidate.orientation)
    /\ LET edges == build_blocked_edges(walls) \cup Range(wall_edge_keys(candidate))
       IN  /\ bfs_has_path(positions.north, GOAL_NORTH, edges)
           /\ bfs_has_path(positions.south, GOAL_SOUTH, edges)

\* can_place_wall with the path test made for north alone
can_place_wall_north_path_only(candidate, walls, positions) ==
    /\ ~(\/ candidate.row < 0
         \/ candidate.col < 0
         \/ candidate.row >= BOARD_SIZE - 1
         \/ candidate.col >= BOARD_SIZE - 1)
    /\ \A i \in DOMAIN walls :
          ~(/\ walls[i].row = candidate.row
            /\ walls[i].col = candidate.col
            /\ walls[i].orientation # candidate.orientation)
    /\ LET edges == build_blocked_edges(walls)
           wall_edges == Range(wall_edge_keys(candidate))
       IN  /\ wall_edges \cap edges = {}
           /\ bfs_has_path(positions.north, GOAL_NORTH, edges \cup wall_edges)

can_place_wall(candidate, walls, positions) ==
    /\ ~(\/ candidate.row < 0
         \/ candidate.col < 0
         \/ candidate.row >= BOARD_SIZE - 1
         \/ candidate.col >= BOARD_SIZE - 1)
    /\ \A i \in DOMAIN walls :
          ~(/\ walls[i].row = candidate.row
            /\ walls[i].col = candidate.col
            /\ walls[i].orientation # candidate.orientation)
    /\ LET edges == build_blocked_edges(walls)
           wall_edges == Range(wall_edge_keys(candidate))
       IN  /\ wall_edges \cap edges = {}
           /\ bfs_has_path(positions.north, GOAL_NORTH, edges \cup wall_edges)
           /\ bfs_has_path(positions.south, GOAL_SOUTH, edges \cup wall_edges)

(***************************************************************************)
(* Evaluation                                                              *)
(***************************************************************************)
\* (8.0 - ai_row).powf(1.4) * 3.5 in units of 1/1024, by ai_row = 0..8
AdvanceSouth == <<65871, 54639, 44033, 34113, 24960, 16685, 9458, 3584, 0>>
\* player_row.powf(1.35) * 3.0 in units of 1/1024, by player_row = 0..8
AdvanceNorth == <<0, 3072, 7831, 13537, 19962, 26979, 34508, 42492, 50885>>

\* a terminal bonus of 1000.0
terminal_bonus_1000 == Fx(1000)

\* the 10000.0 added for south on its goal row and subtracted for north on its own
terminal_bonus == Fx(10000)

is_terminal(state) ==
    state.positions.south.row = GOAL_SOUTH \/ state.positions.north.row = GOAL_NORTH

evaluate(state) ==
    LET edges == build_blocked_edges(state.walls)
        south == state.positions.south
        north == state.positions.north
        ai_dist == shortest_path(south, GOAL_SOUTH, edges, north)
        player_dist == shortest_path(north, GOAL_NORTH, edges, south)
        ai_moves == get_valid_pawn_moves(south, north, edges)
        player_moves == get_valid_pawn_moves(north, south, edges)
        dist_between == Abs(south.row - north.row) + Abs(south.col - north.col)
    IN  Fx((player_dist - ai_dist) * 20)
        + Fx((4 - Abs(south.col - 4)) * 3)
        - (4 - Abs(north.col - 4)) * 1536
        + AdvanceSouth[south.row + 1]
        - AdvanceNorth[north.row + 1]
        + Fx((Len(ai_moves) - Len(player_moves)) * 2)
        + (IF dist_between < 3 /\ south.row < north.row THEN Fx(6) ELSE 0)
        + (state.walls_remaining.south - state.walls_remaining.north) * 1536
        + (IF south.row = GOAL_SOUTH THEN terminal_bonus ELSE 0)
        - (IF north.row = GOAL_NORTH THEN terminal_bonus ELSE 0)

(***************************************************************************)
(* Move generation                                                         *)
(***************************************************************************)
PawnMove(pos) == [kind |-> "pawn", pos |-> pos]
WallMove(wall) == [kind |-> "wall", wall |-> wall]
NoMove == [kind |-> "none"]

\* every term is a whole number, so the f32 value is exact as an integer
wall_value(state, wall, player, edges) ==
    LET next_edges == build_blocked_edges(Append(state.walls, wall))
        player_pos == for_player(state, player)
        opp_pos == for_player(state, opponent(player))
        opp_before == shortest_path(opp_pos, goal_row(opponent(player)), edges, player_pos)
        opp_after == shortest_path(opp_pos, goal_row(opponent(player)), next_edges, player_pos)
        self_before == shortest_path(player_pos, goal_row(player), edges, opp_pos)
        self_after == shortest_path(player_pos, goal_row(player), next_edges, opp_pos)
        blocking_gain == opp_after - opp_before
        self_penalty == self_after - self_before
        dist_to_opp == Abs(wall.row - opp_pos.row) + Abs(wall.col - opp_pos.col)
        dist_to_self == Abs(wall.row - player_pos.row) + Abs(wall.col - player_pos.col)
        orientation_bonus ==
            IF wall.orientation = "horizontal"
            THEN (IF wall.row > opp_pos.row THEN 4 ELSE 2)
            ELSE (IF Abs(wall.col - opp_pos.col) <= 1 THEN 5 ELSE 3)
    IN  blocking_gain * 25 - self_penalty * 18 + orientation_bonus - dist_to_self * 2
        + Max2(0, 4 - dist_to_opp) * 4

\* the k-th wall of the loops over orientation, row and col, k = 0..127
NthWall(k) ==
    MkWall((k % 64) \div (BOARD_SIZE - 1), k % (BOARD_SIZE - 1),
           IF k < 64 THEN "horizontal" ELSE "vertical")

\* candidates.sort_by(descending value) is stable: of equal values the one generated
\* first comes first; take(cap) keeps the first cap of them
RECURSIVE take_sorted(_, _)
take_sorted(cands, cap) ==
    IF cap = 0 \/ cands = {} THEN <<>>
    ELSE LET best == CHOOSE c \in cands :
                        \A d \in cands : d[1] < c[1] \/ (d[1] = c[1] /\ d[2] >= c[2])
         IN  <<WallMove(NthWall(best[2]))>> \o take_sorted(cands \ {best}, cap - 1)

\* generate_moves without the test of the mover's wall counter
generate_moves_walls_unguarded(state, player, depth) ==
    LET edges == build_blocked_edges(state.walls)
        self_pos == for_player(state, player)
        opp_pos == for_player(state, opponent(player))
        pawns == get_valid_pawn_moves(self_pos, opp_pos, edges)
        placeable == {k \in 0..127 : can_place_wall(NthWall(k), state.walls, state.positions)}
        valued == {<<wall_value(state, NthWall(k), player, edges), k>> : k \in placeable}
        candidates == {c \in valued : c[1] > -200}
        cap == IF depth > 2 THEN 12 ELSE 8
    IN  [i \in 1..Len(pawns) |-> PawnMove(pawns[i])] \o take_sorted(candidates, cap)

generate_moves(state, player, depth) ==
    LET edges == build_blocked_edges(state.walls)
        self_pos == for_player(state, player)
        opp_pos == for_player(state, opponent(player))
        pawns == get_valid_pawn_moves(self_pos, opp_pos, edges)
        placeable == {k \in 0..127 : can_place_wall(NthWall(k), state.walls, state.positions)}
        valued == {<<wall_value(state, NthWall(k), player, edges), k>> : k \in placeable}
        candidates == {c \in valued : c[1] > -200}
        cap == IF depth > 2 THEN 12 ELSE 8
    IN  [i \in 1..Len(pawns) |-> PawnMove(pawns[i])]
        \o (IF walls_left(state, player) > 0 THEN take_sorted(candidates, cap) ELSE <<>>)

\* Option<GameState>: [some |-> TRUE, state |-> s] or [some |-> FALSE]
apply_move(state, player, mv) ==
    IF mv.kind = "pawn"
    THEN [some |-> TRUE, state |-> update_position(state, player, mv.pos)]
    ELSE IF ~can_place_wall(mv.wall, state.walls, state.positions)
    THEN [some |-> FALSE]
    ELSE [some |-> TRUE,
          state |-> decrement_wall([state EXCEPT !.walls = Append(@, mv.wall)], player)]

(***************************************************************************)
(* Search                                                                  *)
(***************************************************************************)
\* if beta <= alpha { break; }
\* the break taken as soon as the window is narrower than 30 points
cutoff_within_margin(alpha, beta) == beta <= alpha + Fx(30)

cutoff(alpha, beta) == beta <= alpha

RECURSIVE minimax(_, _, _, _, _)
RECURSIVE search_loop(_, _, _, _, _, _, _, _, _)

\* the for loop of the South branch (player = "south": strict >, alpha raised) or of
\* the North branch (strict <, beta lowered), from the i-th move on; a move that
\* apply_move refuses is passed over
search_loop(state, depth, alpha, beta, player, moves, i, best_score, best_move) ==
    IF i > Len(moves) THEN <<best_score, best_move>>
    ELSE LET next == apply_move(state, player, moves[i])
             score == minimax(next.state, depth - 1, alpha, beta, opponent(player))[1]
             better == IF player = "south" THEN score > best_score
                                           ELSE score < best_score
             bs == IF next.some /\ better THEN score ELSE best_score
             bm == IF next.some /\ better THEN moves[i] ELSE best_move
             a == IF next.some /\ player = "south" THEN Max2(alpha, bs) ELSE alpha
             b == IF next.some /\ player = "north" THEN Min2(beta, bs) ELSE beta
         IN  IF next.some /\ cutoff(a, b) THEN <<bs, bm>>
             ELSE search_loop(state, depth, a, b, player, moves, i + 1, bs, bm)

minimax(state, depth, alpha, beta, player) ==
    IF depth = 0 \/ is_terminal(state) THEN <<evaluate(state), NoMove>>
    ELSE search_loop(state, depth, alpha, beta, player,
                     generate_moves(state, player, depth), 1,
                     IF player = "south" THEN F32_NEG_INFINITY ELSE F32_INFINITY,
                     NoMove)

search_depth(state) == IF state.walls_remaining.south > 4 THEN 3 ELSE 2

\* <<best move, score>>
search_best_move(state) ==
    LET r == minimax(state, search_depth(state), F32_NEG_INFINITY, F32_INFINITY, "south")
    IN  <<r[2], r[1]>>

\* max_by_key(|p| -p.row) keeps the last of the moves of smallest row
\* fallback_move with max_by_key on the row itself
fallback_move_largest_row(current, state) ==
    LET edges == build_blocked_edges(state.walls)
        moves == get_valid_pawn_moves(current, state.positions.north, edges)
    IN  IF moves = <<>> THEN current
        ELSE LET i == CHOOSE i \in DOMAIN moves :
                         /\ \A j \in DOMAIN moves : moves[j].row <= moves[i].row
                         /\ \A j \in DOMAIN moves : j > i => moves[j].row < moves[i].row
             IN  moves[i]

fallback_move(current, state) ==
    LET edges == build_blocked_edges(state.walls)
        moves == get_valid_pawn_moves(current, state.positions.north, edges)
    IN  IF moves = <<>> THEN current
        ELSE LET i == CHOOSE i \in DOMAIN moves :
                         /\ \A j \in DOMAIN moves : moves[j].row >= moves[i].row
                         /\ \A j \in DOMAIN moves : j > i => moves[j].row > moves[i].row
             IN  moves[i]

\* the match on best_move: the BestMoveOutput that is serialised
best_move_output(best_move, state) ==
    IF best_move.kind = "pawn" THEN [type |-> "move", data |-> best_move.pos]
    ELSE IF best_move.kind = "wall" THEN [type |-> "wall", data |-> best_move.wall]
    ELSE [type |-> "move", data |-> fallback_move(state.positions.south, state)]

\* for a state that parsed
get_best_move(state) == best_move_output(search_best_move(state)[1], state)

MkState(north, south, walls_, wn, ws) ==
    [positions |-> [north |-> north, south |-> south],
     walls |-> walls_,
     walls_remaining |-> [north |-> wn, south |-> ws]]

(***************************************************************************)
(* State.  positions, walls and walls_remaining are the fields of the      *)
(* GameState at hand; player is the side to move and depth the plies left  *)
(* at a node of the search; pc names the operation that is to run or has   *)
(* run, and out holds what it returned.                                    *)
(***************************************************************************)
VARIABLES positions, walls, walls_remaining, player, depth, pc, out
vars == <<positions, walls, walls_remaining, player, depth, pc, out>>

game == [positions |-> positions, walls |-> walls, walls_remaining |-> walls_remaining]
blocked_now == build_blocked_edges(walls)

(***************************************************************************)
(* Input families.  A wall list of an input is written in the order of the *)
(* wall loops of generate_moves (NthWall).                                 *)
(***************************************************************************)
WallIndex(w) ==
    (IF w.orientation = "horizontal" THEN 0 ELSE 64) + w.row * (BOARD_SIZE - 1) + w.col

\* the ascending lists of at most n walls with indices in K
RECURSIVE WallLists(_, _)
WallLists(K, n) ==
    IF n = 0 THEN {<<>>}
    ELSE LET shorter == WallLists(K, n - 1)
         IN  shorter \cup
             {Append(s, NthWall(k)) : <<s, k>> \in
                 {x \in shorter \X K :
                     /\ Len(x[1]) = n - 1
                     /\ (x[1] = <<>> \/ WallIndex(x[1][Len(x[1])]) < x[2])}}

NoWallsLeft == [north |-> 0, south |-> 0]

(***************************************************************************)
(* SpecPawn: get_valid_pawn_moves on its own.  current is the south token, *)
(* the opponent the north token, at most two steps away; the walls are the *)
(* ones that touch the cells around current.                               *)
(***************************************************************************)
MaxPawnWalls == 2

PawnCells == {Pos(r, c) : <<r, c>> \in {0, 1, 4, 7, 8} \X {0, 1, 4, 7, 8}}

NearCells(p) ==
    {q \in {Pos(p.row + dr, p.col + dc) : <<dr, dc>> \in (-2..2) \X (-2..2)} :
        OnBoard(q) /\ Abs(q.row - p.row) + Abs(q.col - p.col) <= 2}

NearWalls(p) ==
    {k \in 0..127 : /\ NthWall(k).row \in (p.row - 2)..(p.row + 1)
                    /\ NthWall(k).col \in (p.col - 2)..(p.col + 1)}

PawnInit ==
    /\ pc = "pawn"
    /\ player = "south"
    /\ depth = 0
    /\ walls_remaining = NoWallsLeft
    /\ out = <<>>
    /\ \E cur \in PawnCells :
          /\ \E opp \in NearCells(cur) : positions = [north |-> opp, south |-> cur]
          /\ walls \in WallLists(NearWalls(cur), MaxPawnWalls)

ValidPawnMoves ==
    /\ pc = "pawn"
    /\ out' = get_valid_pawn_moves(positions[player], positions[opponent(player)],
                                   blocked_now)
    /\ pc' = "pawn_done"
    /\ UNCHANGED <<positions, walls, walls_remaining, player, depth>>

SpecPawn == PawnInit /\ [][ValidPawnMoves]_vars

\* what the claims about get_valid_pawn_moves read off a state of SpecPawn
Current == positions.south
Opp == positions.north
Returned == Range(out)
Shift(p, dr, dc) == Pos(p.row + dr, p.col + dc)
Open(a, b) == OnBoard(a) /\ OnBoard(b) /\ edge_key(a, b) \notin blocked_now
AtDistanceTwo(p) == Abs(p.row - Current.row) + Abs(p.col - Current.col) = 2
\* the two cells next to the opponent across the line from current to the opponent
Beside(dr, dc) ==
    IF dc = 0 THEN {Shift(Opp, 0, -1), Shift(Opp, 0, 1)}
    ELSE {Shift(Opp, -1, 0), Shift(Opp, 1, 0)}
\* the opponent is the neighbour of current in direction (dr, dc), across an open edge
OppNextTo(dr, dc) == Shift(Current, dr, dc) = Opp /\ Open(Current, Opp)
Directions == {<<-1, 0>>, <<1, 0>>, <<0, -1>>, <<0, 1>>}

\* C4: with the opponent on an open neighbouring cell, a legal straight jump is
\* returned and no cell beside the opponent is; when the straight jump is off the
\* board or blocked, the cells at distance two that are returned are exactly the
\* cells beside the opponent that are on the board and open from the opponent's cell
C4_JumpRule ==
    pc = "pawn_done" =>
        \A d \in Directions :
            OppNextTo(d[1], d[2]) =>
                IF Open(Opp, Shift(Opp, d[1], d[2]))
                THEN /\ Shift(Opp, d[1], d[2]) \in Returned
                     /\ Beside(d[1], d[2]) \cap Returned = {}
                ELSE {p \in Returned : AtDistanceTwo(p)}
                        = {p \in Beside(d[1], d[2]) : Open(Opp, p)}

\* the opponent above current, the jump over it blocked by a wall, and a diagonal returned
C4_Witness ==
    /\ pc = "pawn_done"
    /\ OppNextTo(-1, 0)
    /\ OnBoard(Shift(Opp, -1, 0))
    /\ ~Open(Opp, Shift(Opp, -1, 0))
    /\ Shift(Opp, 0, 1) \in Returned
    /\ Shift(Opp, 0, -1) \notin Returned

\* C10: every position get_valid_pawn_moves returns has row and col in 0..8, and
\* no position is returned twice
C10_OnBoardNoDuplicate ==
    pc = "pawn_done" =>
        /\ \A i \in DOMAIN out : out[i].row \in 0..8 /\ out[i].col \in 0..8
        /\ \A i, j \in DOMAIN out : i # j => out[i] # out[j]

\* the opponent on the edge of the board next to current: the jump would leave the board
C10_Witness ==
    /\ pc = "pawn_done"
    /\ Current.row = 1
    /\ OppNextTo(-1, 0)
    /\ Len(out) >= 3

(***************************************************************************)
(* SpecEval: evaluate on its own, on states with a token on its goal row   *)
(* or next to it, the counters at the ends of u8.                          *)
(***************************************************************************)
MaxEvalWalls == 2

EvalSouthCells == {Pos(r, c) : <<r, c>> \in {0, 1, 8} \X {0, 4, 8}}
EvalNorthCells == {Pos(r, c) : <<r, c>> \in {0, 7, 8} \X {0, 3, 8}}
\* the walls anchored in the corners of the wall grid and beside the middle column
EvalWalls == {k \in 0..127 : NthWall(k).row \in {0, 7} /\ NthWall(k).col \in {0, 4}}
EvalCounts == {<<0, 0>>, <<10, 10>>, <<0, 255>>, <<255, 0>>}

EvalInit ==
    /\ pc = "evaluate"
    /\ player = "south"
    /\ depth = 0
    /\ out = 0
    /\ \E s \in EvalSouthCells, n \in EvalNorthCells :
          /\ s # n
          /\ positions = [north |-> n, south |-> s]
    /\ walls \in WallLists(EvalWalls, MaxEvalWalls)
    /\ \E c \in EvalCounts : walls_remaining = [north |-> c[1], south |-> c[2]]

Evaluate ==
    /\ pc = "evaluate"
    /\ out' = evaluate(game)
    /\ pc' = "evaluated"
    /\ UNCHANGED <<positions, walls, walls_remaining, player, depth>>

SpecEval == EvalInit /\ [][Evaluate]_vars

\* C8 as stated: south on row 0 gives a score above 9000 and north on row 8 a score
\* below -9000, in every state, the one with both tokens on their goal rows included
C8_TerminalDominance ==
    pc = "evaluated" =>
        /\ positions.south.row = 0 => out > Fx(9000)
        /\ positions.north.row = 8 => out < -Fx(9000)

\* C8 amended: south on row 0 and north not on row 8 gives a score above 9000; north
\* on row 8 and south not on row 0 gives a score below -9000
C8_TerminalDominanceOneSide ==
    pc = "evaluated" =>
        /\ (positions.south.row = 0 /\ positions.north.row # 8) => out > Fx(9000)
        /\ (positions.north.row = 8 /\ positions.south.row # 0) => out < -Fx(9000)

\* south on its goal row with every other term against it: no walls left to north's 255
C8_Witness ==
    /\ pc = "evaluated"
    /\ positions.south.row = 0
    /\ positions.north.row = 7
    /\ walls_remaining = [north |-> 255, south |-> 0]
    /\ out > Fx(9000)
    /\ out < Fx(9700)

(***************************************************************************)
(* SpecWalls: a wall list grown from the empty list, each wall through     *)
(* apply_move and so through can_place_wall, the two sides placing in      *)
(* turn.  The candidates are the walls anchored in or just outside the     *)
(* north-west corner of the wall grid, in any order and with repetition.   *)
(***************************************************************************)
MaxPlaced == 3

Orientations == {"horizontal", "vertical"}
WallChoices == {MkWall(r, c, o) : <<r, c, o>> \in (-1..1) \X (-1..2) \X Orientations}

WallsInit ==
    /\ pc = "place"
    /\ positions = [north |-> Pos(0, 4), south |-> Pos(8, 4)]
    /\ walls = <<>>
    /\ walls_remaining = [north |-> 10, south |-> 10]
    /\ player = "south"
    /\ depth = 0
    /\ out = 0

PlaceWall(wall) ==
    /\ pc = "place"
    /\ Len(walls) < MaxPlaced
    /\ LET next == apply_move(game, player, WallMove(wall))
       IN  /\ next.some
           /\ positions' = next.state.positions
           /\ walls' = next.state.walls
           /\ walls_remaining' = next.state.walls_remaining
    /\ player' = opponent(player)
    /\ UNCHANGED <<depth, pc, out>>

SpecWalls == WallsInit /\ [][\E wall \in WallChoices : PlaceWall(wall)]_vars

\* C6: every wall of a list built through can_place_wall has row and col in 0..7, no
\* two of its walls sit on one wall-grid cell with different orientations, and no two
\* of its walls block a common edge (so none is there twice or overlaps a parallel one)
C6_WallListWellFormed ==
    /\ \A i \in DOMAIN walls : walls[i].row \in 0..7 /\ walls[i].col \in 0..7
    /\ \A i, j \in DOMAIN walls :
          i # j =>
              /\ ~(/\ walls[i].row = walls[j].row
                   /\ walls[i].col = walls[j].col
                   /\ walls[i].orientation # walls[j].orientation)
              /\ Range(wall_edge_keys(walls[i])) \cap Range(wall_edge_keys(walls[j])) = {}

\* three walls placed, a horizontal and a vertical one among them on neighbouring cells
C6_Witness ==
    /\ Len(walls) = 3
    /\ walls[1] = MkWall(0, 0, "horizontal")
    /\ walls[2] = MkWall(0, 1, "vertical")
    /\ walls[3] = MkWall(1, 1, "horizontal")
    /\ walls_remaining = [north |-> 9, south |-> 8]

(***************************************************************************)
(* SpecGame: play from the start position, the two sides moving in turn,   *)
(* south first.  A turn is a token move returned by get_valid_pawn_moves   *)
(* or a wall accepted by can_place_wall, both made through apply_move.     *)
(* The fragment explored keeps each token within one step of its start on  *)
(* the centre column and draws the walls from GameWalls; whether a wall is *)
(* accepted depends on the set of walls placed, not on their order, so the *)
(* walls are placed in the order of their indices.                         *)
(***************************************************************************)
GameWalls ==
    {MkWall(0, 0, "horizontal"), MkWall(0, 2, "horizontal"), MkWall(0, 5, "horizontal"),
     MkWall(0, 7, "horizontal"), MkWall(0, 3, "vertical"), MkWall(0, 4, "vertical")}

GameCells ==
    [north |-> {Pos(0, 4), Pos(1, 4)}, south |-> {Pos(8, 4), Pos(7, 4)}]

GameInit ==
    /\ pc = "play"
    /\ positions = [north |-> Pos(0, 4), south |-> Pos(8, 4)]
    /\ walls = <<>>
    /\ walls_remaining = [north |-> 10, south |-> 10]
    /\ player = "south"
    /\ depth = 0
    /\ out = 0

Play(mv) ==
    /\ pc = "play"
    /\ LET next == apply_move(game, player, mv)
       IN  /\ next.some
           /\ positions' = next.state.positions
           /\ walls' = next.state.walls
           /\ walls_remaining' = next.state.walls_remaining
    /\ player' = opponent(player)
    /\ UNCHANGED <<depth, pc, out>>

MoveToken ==
    \E pos \in GameCells[player] :
        /\ pos \in Range(get_valid_pawn_moves(for_player(game, player),
                                              for_player(game, opponent(player)),
                                              blocked_now))
        /\ Play(PawnMove(pos))

PlayWall ==
    \E wall \in GameWalls :
        /\ walls_left(game, player) > 0
        /\ IF walls = <<>> THEN TRUE
                           ELSE WallIndex(walls[Len(walls)]) < WallIndex(wall)
        /\ Play(WallMove(wall))

GameNext == MoveToken \/ PlayWall

SpecGame == GameInit /\ [][GameNext]_vars

\* the edges between a cell and its neighbours on the board
EdgesAround(cell) == {edge_key(cell, n) : n \in Range(get_adjacent_positions(cell))}

PlainPath(p) == bfs_has_path(positions[p], goal_row(p), blocked_now)

\* a plain path of p that does not enter the opponent's cell
PlainPathAround(p) ==
    bfs_has_path(positions[p], goal_row(p),
                 blocked_now \cup EdgesAround(positions[opponent(p)]))

Distance(p) ==
    shortest_path(positions[p], goal_row(p), blocked_now, positions[opponent(p)])

\* C5 as stated: in every state reached from the start position by legal token
\* moves and accepted walls, shortest_path returns 99 for neither player
C5_NeverSentinel == \A p \in Players : Distance(p) # 99

\* C5 as amended: in every such state both players have a plain path to their goal
\* row, and shortest_path returns 99 for a player only when each of that player's
\* plain paths enters the cell the opponent stands on
C5_SentinelOnlyBehindOpponent ==
    \A p \in Players :
        /\ PlainPath(p)
        /\ Distance(p) = 99 => ~PlainPathAround(p)

\* the six walls stand, north is on (0, 4) at the end of the only column left open
\* towards row 0, and south's distance is the sentinel
C5_Witness ==
    /\ Len(walls) = 6
    /\ positions = [north |-> Pos(0, 4), south |-> Pos(8, 4)]
    /\ PlainPath("south")
    /\ Distance("south") = 99
    /\ Distance("north") # 99

(***************************************************************************)
(* SpecSearch: the search of get_best_move as a walk.  A behaviour starts  *)
(* at an input state with south to move and search_depth plies left; a    *)
(* step either answers the input (Answer, the whole of get_best_move) or   *)
(* descends into one child of the node at hand the way the loops of        *)
(* minimax do: a move of generate_moves, applied by apply_move, one ply    *)
(* less, the opponent to move.  Every node minimax can visit without       *)
(* pruning is a state of some behaviour.                                   *)
(***************************************************************************)
SearchRoots ==
    {MkState(Pos(3, 4), Pos(4, 4), <<>>, 0, 0),
     MkState(Pos(7, 4), Pos(1, 4), <<>>, 0, 0),
     MkState(Pos(7, 0), Pos(8, 0),
             <<MkWall(6, 0, "horizontal"), MkWall(7, 0, "vertical")>>, 0, 0),
     MkState(Pos(5, 5), Pos(0, 3), <<>>, 0, 0),
     MkState(Pos(8, 2), Pos(4, 4), <<>>, 0, 0),
     MkState(Pos(6, 8), Pos(2, 0), <<MkWall(1, 0, "horizontal")>>, 0, 0),
     MkState(Pos(6, 4), Pos(2, 4), <<>>, 1, 0),
     MkState(Pos(6, 4), Pos(2, 4), <<>>, 0, 1),
     MkState(Pos(6, 4), Pos(8, 0), <<MkWall(7, 0, "vertical")>>, 1, 0),
     MkState(Pos(7, 4), Pos(1, 4), <<>>, 0, 5)}

SearchInit ==
    /\ pc = "root"
    /\ \E root \in SearchRoots :
          /\ positions = root.positions
          /\ walls = root.walls
          /\ walls_remaining = root.walls_remaining
          /\ depth = search_depth(root)
    /\ player = "south"
    /\ out = NoMove

\* one iteration of a loop of minimax: the child for one generated move
Descend ==
    /\ pc \in {"root", "node"}
    /\ depth # 0
    /\ ~is_terminal(game)
    /\ \E mv \in Range(generate_moves(game, player, depth)) :
          LET next == apply_move(game, player, mv)
          IN  /\ next.some
              /\ positions' = next.state.positions
              /\ walls' = next.state.walls
              /\ walls_remaining' = next.state.walls_remaining
              /\ out' = mv
    /\ depth' = depth - 1
    /\ player' = opponent(player)
    /\ pc' = "node"

\* get_best_move on the input: what the search returned and what is output
Answer ==
    /\ pc = "root"
    /\ \E found \in {search_best_move(game)} :
          out' = [best |-> found[1], score |-> found[2],
                  output |-> best_move_output(found[1], game)]
    /\ pc' = "answered"
    /\ UNCHANGED <<positions, walls, walls_remaining, player, depth>>

SearchNext == Descend \/ Answer

SpecSearch == SearchInit /\ [][SearchNext]_vars

\* C1: in the search from a state in which both players have a plain path, the state
\* after every wall that generate_moves returned and apply_move appended leaves north
\* with a plain path to row 8 and south with a plain path to row 0
C1_AcceptedWallKeepsPaths ==
    (pc = "node" /\ out.kind = "wall") =>
        /\ walls # <<>> /\ walls[Len(walls)] = out.wall
        /\ PlainPath("north")
        /\ PlainPath("south")

\* north has shut south's way east with a wall and south still has a path: the wall
\* that would have closed the pocket south stands in was not on offer
C1_Witness ==
    /\ pc = "node" /\ out.kind = "wall"
    /\ positions.south = Pos(7, 0)
    /\ walls[1] = MkWall(7, 0, "vertical")
    /\ Len(walls) = 2
    /\ PlainPath("south")

\* a step that appends a wall
WallStep == Len(walls') = Len(walls) + 1

\* C7: along every path of the search a wall is placed only by a mover whose counter
\* is at least 1, the step takes exactly one off that counter and leaves the other
\* alone, a token step leaves both alone, so no counter goes below 0; and an input
\* with no wall left for south is never answered with a "wall"
C7_WallsOnlyWithCounter ==
    /\ [](walls_remaining.north >= 0 /\ walls_remaining.south >= 0)
    /\ [][/\ WallStep =>
                /\ walls_remaining[player] >= 1
                /\ walls_remaining' =
                       [walls_remaining EXCEPT ![player] = walls_remaining[player] - 1]
          /\ ~WallStep => walls_remaining' = walls_remaining]_vars
    /\ []((pc = "answered" /\ walls_remaining.south = 0) => out.output.type # "wall")

\* north, with one wall, has placed it at depth 1 and has none left
C7_Witness ==
    /\ pc = "node" /\ out.kind = "wall"
    /\ player = "south"
    /\ walls_remaining = [north |-> 0, south |-> 0]
    /\ depth = 0

\* the token moves of south on the input, as fallback_move asks for them
SouthMoves == Range(get_valid_pawn_moves(positions.south, positions.north, blocked_now))

\* what the claim has the fallback output: a valid token move of smallest row, or
\* south's position when there is none
FallbackAsClaimed ==
    /\ out.output.type = "move"
    /\ IF SouthMoves = {} THEN out.output.data = positions.south
       ELSE /\ out.output.data \in SouthMoves
            /\ \A m \in SouthMoves : out.output.data.row <= m.row

\* C9 as stated: the search returns no move only when generate_moves for south on the
\* input is empty, and the output is then the fallback
C9_NoMoveOnlyWithoutMoves ==
    (pc = "answered" /\ out.best = NoMove) =>
        /\ generate_moves(game, "south", depth) = <<>>
        /\ FallbackAsClaimed

\* C9 as amended: with both tokens on the board, the search returns no move only when
\* generate_moves for south on the input is empty or the input is terminal (south on
\* row 0 or north on row 8), and the output is then the fallback
C9_NoMoveOnlyWithoutMovesOrTerminal ==
    (pc = "answered" /\ out.best = NoMove) =>
        /\ generate_moves(game, "south", depth) = <<>> \/ is_terminal(game)
        /\ FallbackAsClaimed

\* an input with south on row 0 and three token moves was answered by the fallback,
\* with the later of the two moves that stay on row 0
C9_Witness ==
    /\ pc = "answered" /\ out.best = NoMove
    /\ positions.south = Pos(0, 3)
    /\ Cardinality(SouthMoves) = 3
    /\ out.output = [type |-> "move", data |-> Pos(0, 4)]

(***************************************************************************)
(* The reference for C3: minimax over the same lists in the same order     *)
(* with the same strict comparisons and no window.                         *)
(***************************************************************************)
RECURSIVE FullMinimax(_, _, _)
RECURSIVE FullLoop(_, _, _, _, _, _, _)

FullLoop(state, d, mover, moves, i, best_score, best_move) ==
    IF i > Len(moves) THEN <<best_score, best_move>>
    ELSE LET next == apply_move(state, mover, moves[i])
         IN  IF ~next.some
             THEN FullLoop(state, d, mover, moves, i + 1, best_score, best_move)
             ELSE LET score == FullMinimax(next.state, d - 1, opponent(mover))[1]
                      better == IF mover = "south" THEN score > best_score
                                                   ELSE score < best_score
                  IN  FullLoop(state, d, mover, moves, i + 1,
                               IF better THEN score ELSE best_score,
                               IF better THEN moves[i] ELSE best_move)

FullMinimax(state, d, mover) ==
    IF d = 0 \/ is_terminal(state) THEN <<evaluate(state), NoMove>>
    ELSE FullLoop(state, d, mover, generate_moves(state, mover, d), 1,
                  IF mover = "south" THEN F32_NEG_INFINITY ELSE F32_INFINITY, NoMove)

\* C3: at every node, for the plies left and the side to move, minimax called with
\* the window -infinity..+infinity returns the score and the move of the minimax
\* that never breaks out of a loop
C3_PruningKeepsResult ==
    pc \in {"root", "node"} =>
        minimax(game, depth, F32_NEG_INFINITY, F32_INFINITY, player)
            = FullMinimax(game, depth, player)

\* a two-ply search in which the break is taken: north's first reply to south's
\* second move already scores no more than south's first move is worth, and north
\* has further replies that are then not searched
C3_Witness ==
    /\ pc = "root"
    /\ depth = 2
    /\ LET moves == generate_moves(game, "south", 2)
       IN  /\ Len(moves) >= 2
           /\ LET first == apply_move(game, "south", moves[1]).state
                  second == apply_move(game, "south", moves[2]).state
                  alpha == minimax(first, 1, F32_NEG_INFINITY, F32_INFINITY, "north")[1]
                  replies == generate_moves(second, "north", 1)
              IN  /\ ~is_terminal(second)
                  /\ Len(replies) >= 2
                  /\ evaluate(apply_move(second, "north", replies[1]).state) <= alpha
                  /\ cutoff(alpha, evaluate(apply_move(second, "north", replies[1]).state))

(***************************************************************************)
(* SpecWin: get_best_move on inputs with south one row from its goal.      *)
(* Without walls in hand the search is two plies deep; with more than four *)
(* walls for south it is three plies deep and walls are on offer.          *)
(***************************************************************************)
WinNorthCells == {Pos(0, 0), Pos(1, 8), Pos(3, 4), Pos(4, 3), Pos(5, 5), Pos(7, 0)}

WinRoots ==
    {MkState(n, Pos(1, c), <<>>, 0, 0) : <<n, c>> \in WinNorthCells \X (0..8)}
      \cup {MkState(Pos(6, 0), Pos(1, 4), <<>>, 0, ws) : ws \in {0, 4, 5}}

WinInit ==
    /\ pc = "root"
    /\ \E root \in WinRoots :
          /\ positions = root.positions
          /\ walls = root.walls
          /\ walls_remaining = root.walls_remaining
          /\ depth = search_depth(root)
    /\ player = "south"
    /\ out = NoMove

SpecWin == WinInit /\ [][Answer]_vars

\* south is on row 1, the edge to the cell above is open, north is not on that cell
\* and north is not on row 8
OneStepFromGoal ==
    /\ positions.south.row = 1
    /\ ~is_edge_blocked(positions.south, Shift(positions.south, -1, 0), blocked_now)
    /\ positions.north # Shift(positions.south, -1, 0)
    /\ positions.north.row # GOAL_NORTH

\* C2: an input with south one open step from row 0 is answered with a "move" to
\* row 0, whatever the two wall counters are
C2_WinningMoveTaken ==
    (pc = "answered" /\ OneStepFromGoal) =>
        out.output.type = "move" /\ out.output.data.row = GOAL_SOUTH

====
